---- MODULE Spec2Model ----
(***************************************************************************)
(* ISO 9141-2 K-Line reader: the protocol engine of obd.c (obd_init,       *)
(* send_byte, send_cmd, the Service-1 readers, get_obd_data) driven by     *)
(* main().  One action per step of the code; every USART_Receive draws     *)
(* the byte the line delivers from a small set of representative bytes.    *)
(***************************************************************************)
EXTENDS Integers, Sequences, FiniteSets, TLC

VARIABLES
    pc,          \* position of the single flow of control (main and callees)
    PD1,         \* level of the wake line, PORTD bit 1
    wk,          \* number of wake-byte segments already driven by obd_init
    uart,        \* TRUE once USART_Init has run
    response,    \* obd_init: byte received as sync (NoByte before)
    keyByte1,    \* obd_init: first key byte
    keyByte2,    \* obd_init: second key byte
    ack2,        \* obd_init: byte last received as the vehicle's acknowledgment
    nrecv,       \* number of USART_Receive calls completed by obd_init
    fn,          \* the reader whose send_cmd call is in progress
    tx,          \* bytes passed to USART_Transmit by the current obd_init / send_cmd
    echo,        \* bytes received by send_byte in the current send_cmd
    rx,          \* response bytes received by the current send_cmd
    checksum,    \* send_cmd: running checksum (unsigned char)
    result,      \* the reader's local result[] array (Uninit = never written)
    ret,         \* value returned by the last send_cmd (NoRet while running)
    rret,        \* value returned by the last reader (NoRet while running)
    obd_info,    \* the global obd_info_t
    mode, page,  \* UI flags of main
    timer_flag,  \* volatile flag raised by the timer interrupt
    ie,          \* global interrupt enable (sei / cli)
    expired,     \* TRUE when more than 5000 ms have elapsed since the
                 \* session was established or the last send_cmd returned 0
    nreq,        \* number of send_cmd calls made so far
    wave,        \* level of the K-Line in each 200 ms bit period of the wake byte
    waited,      \* ms spent waiting since the last operation on the line
    quiet,       \* ms that had been spent waiting when the last operation
                 \* on the line was made
    lcd,         \* what the LCD shows: the values of its two lines
    keyPressed,  \* main's local: the key index last returned by get_key
    gret,        \* value returned by the last get_obd_data (NoRet before the first)
    nirq,        \* history: number of timer interrupts taken (NotCounted: not recorded)
    nlcd         \* history: number of update_lcd calls of the loop (NotCounted: not recorded)

vars == <<pc, PD1, wk, uart, response, keyByte1, keyByte2, ack2, nrecv, fn, tx,
          echo, rx, checksum, result, ret, rret, obd_info, mode, page,
          timer_flag, ie, expired, nreq, wave, waited, quiet, lcd, keyPressed,
          gret, nirq, nlcd>>

---------------------------------------------------------------------------
(* Bounds of the model *)

\* number of send_cmd calls that are explored: the supported-PID read, the
\* four reads of the first get_obd_data and the first read of the second
MaxRequests == 6

\* number of timer interrupts that are counted, in the specification that
\* records the counts
MaxInterrupts == 3

---------------------------------------------------------------------------
(* Program constants *)

CMD_LEN_OFFSET == 102
DESTINATION == 106
SOURCE == 241
DATA_LEN_OFFSET == 66

\* ISO 9141-2 values named by the comments of obd_init and the README
SYNC_BYTE == 85
ADDRESS_BYTE == 51

\* arguments of the wait_avr calls of obd_init, send_cmd, get_obd_data and
\* main, in ms
RESET_WAIT_MS == 2610
ACK_WAIT_MS == 40
INTER_BYTE_WAIT_MS == 10
INTER_REQUEST_WAIT_MS == 65
SETUP_WAIT_MS == 100

\* the response's first data byte is 0x40 + cmd(0) in the README's format
RESPONSE_MODE_OFFSET == 64

\* one bit period at 5 baud, in ms
BIT_MS == 200

\* period of the compare-match interrupt configured by timer_setup, in ms
TIMER_PERIOD_MS == 500

\* key indices tested by main
KEY_PAGE == 1
KEY_MODE == 16

---------------------------------------------------------------------------
(* Bytes and C arithmetic *)

Byte == 0..255
NoByte == -1
Uninit == -1
NoRet == 1

Compl(b) == 255 - b

ToU8(x) == x % 256
ToU16(x) == x % 65536
ToS8(x) == ((x + 128) % 256) - 128
ToS16(x) == ((x + 32768) % 65536) - 32768

\* C integer division truncates toward zero
CDiv(a, b) == IF a >= 0 THEN a \div b ELSE -((-a) \div b)

\* C logical negation, as an int
LNot(v) == IF v = 0 THEN 1 ELSE 0

---------------------------------------------------------------------------
(* What the line can deliver to a USART_Receive *)

\* a byte that differs from b (every bit inverted)
Corrupt(b) == Compl(b)

\* the byte expected at this point of the protocol, or a wrong one
LineBytes(expected) == {expected, Corrupt(expected)}

\* first key byte: the ISO 9141-2 pairs 08 08 / 94 94 and a KWP2000 one
KeyBytes1 == {8, 148, 143}

\* response length bytes around the values 0x42 + cmd_len + result_len,
\* with the two ends of the byte range
LenBytes == {0, 255} \cup (DATA_LEN_OFFSET .. DATA_LEN_OFFSET + 8)

\* result payloads of a response: consecutive byte values from a start byte,
\* so that every position of a payload holds a different value
PayloadStarts == {16, 240}
Payloads(n) == { [i \in 1..n |-> (s + i - 1) % 256] : s \in PayloadStarts }

\* the next result byte the line can deliver after the result bytes got
PayloadBytes(got, n) ==
    { p[Len(got) + 1] : p \in { q \in Payloads(n) : SubSeq(q, 1, Len(got)) = got } }

\* trailing checksum byte of a response
ChecksumBytes == {0, 255}

\* contents of a local array that was never written
GarbageStarts == {32, 224}
GarbageArrays(n) == { [i \in 1..n |-> (s + i - 1) % 256] : s \in GarbageStarts }

\* key indices returned by get_key: none, 1, 16, and one other key
Keys == {0, KEY_PAGE, KEY_MODE, 5}

---------------------------------------------------------------------------
(* Time: USART_Receive blocks until a byte arrives, with no timeout, so a   *)
(* receive may last longer than the 5000 ms the vehicle keeps an idle       *)
(* session open.                                                            *)

\* expired after a USART_Receive that returned within a frame time / that
\* blocked for more than 5000 ms
Received(e, stalled) == e \/ stalled

---------------------------------------------------------------------------
(* The requests *)

Readers == {"pids", "load", "temp", "rpm", "speed"}

\* unsigned char cmd[2] of each reader
Cmd(f) ==
    CASE f = "pids"  -> <<1, 0>>
      [] f = "load"  -> <<1, 4>>
      [] f = "temp"  -> <<1, 5>>
      [] f = "rpm"   -> <<1, 12>>
      [] f = "speed" -> <<1, 13>>

CmdLen(f) == Len(Cmd(f))

\* result_len argument of each reader's send_cmd call
ResultLen(f) ==
    CASE f = "pids"  -> 4
      [] f = "load"  -> 1
      [] f = "temp"  -> 1
      [] f = "rpm"   -> 2
      [] f = "speed" -> 1

\* get_obd_data reading the engine load again after each read of it
NextReader_Repeat(f) ==
    CASE f = "load"  -> "load"
      [] f = "temp"  -> "rpm"
      [] f = "rpm"   -> "speed"
      [] f = "speed" -> "none"

\* order of the reads in get_obd_data; "none" ends the cycle
NextReader(f) ==
    CASE f = "load"  -> "temp"
      [] f = "temp"  -> "rpm"
      [] f = "rpm"   -> "speed"
      [] f = "speed" -> "none"

\* a history counter that is not recorded stays at NotCounted
NotCounted == -1
Count(n) == IF n = NotCounted THEN n ELSE n + 1

\* the LCD after clr_lcd
Blank == [kind |-> "blank", line0 |-> <<>>, line1 |-> <<>>]

InitInfo == [s1pid00 |-> <<0, 0, 0, 0>>, load |-> 0, temperature |-> 0,
             rpm |-> 0, speed |-> 0]

---------------------------------------------------------------------------
(* State after reset: main() is about to call obd_init *)

Init ==
    /\ pc = "init_reset"
    /\ PD1 = 0
    /\ wk = 0
    /\ uart = FALSE
    /\ response = NoByte
    /\ keyByte1 = NoByte
    /\ keyByte2 = NoByte
    /\ ack2 = NoByte
    /\ nrecv = 0
    /\ fn = "none"
    /\ tx = <<>>
    /\ echo = <<>>
    /\ rx = <<>>
    /\ checksum = 0
    /\ result = <<>>
    /\ ret = NoRet
    /\ rret = NoRet
    /\ obd_info = InitInfo
    /\ mode = 0
    /\ page = 0
    /\ timer_flag = 0
    /\ ie = FALSE
    /\ expired = FALSE
    /\ nreq = 0
    /\ wave = <<>>
    /\ waited = 0
    /\ quiet = 0
    /\ lcd = [kind |-> "initializing", line0 |-> <<>>, line1 |-> <<>>]
    /\ keyPressed = NoByte
    /\ gret = NoRet
    /\ nirq = NotCounted
    /\ nlcd = NotCounted

reqVars == <<fn, tx, echo, rx, checksum, result, ret, rret>>
uiVars == <<mode, page, timer_flag, ie, keyPressed>>
hsVars == <<response, keyByte1, keyByte2, ack2, nrecv>>

---------------------------------------------------------------------------
(* obd_init: the slow-init handshake *)

\* the wake byte with the start bit held for two bit periods and the first
\* data bits for one
WakeSegments_LongStart == << <<0, 400>>, <<1, 200>>, <<0, 400>>, <<1, 400>>, <<0, 400>>, <<1, 200>> >>

\* the wake byte 0x33 at 5 baud: <<level, ms>> of each PORTD write + wait
WakeSegments == << <<0, 200>>, <<1, 400>>, <<0, 400>>, <<1, 400>>, <<0, 400>>, <<1, 200>> >>

\* wait_avr(ms) called when t ms have been waited already: it returns after
\* ms more
wait_avr(t, ms) == t + ms

\* the levels seen in the bit periods that one segment of the wake byte covers
Samples(seg) == [i \in 1..(seg[2] \div BIT_MS) |-> seg[1]]

\* PD1 as output, driven high, held for the ECU to reset
obd_init_reset ==
    /\ pc = "init_reset"
    /\ PD1' = 1
    /\ pc' = "init_wake"
    /\ UNCHANGED <<wk, uart, hsVars, reqVars, obd_info, uiVars, expired, nreq>>
    /\ quiet' = waited
    /\ waited' = wait_avr(0, RESET_WAIT_MS)
    /\ UNCHANGED <<wave, lcd>>
    /\ UNCHANGED <<gret, nirq, nlcd>>

\* one PORTD write of the wake byte and the wait that follows it
obd_init_wake ==
    /\ pc = "init_wake"
    /\ wk < Len(WakeSegments)
    /\ PD1' = WakeSegments[wk + 1][1]
    /\ wk' = wk + 1
    /\ pc' = IF wk + 1 = Len(WakeSegments) THEN "init_uart" ELSE "init_wake"
    /\ UNCHANGED <<uart, hsVars, reqVars, obd_info, uiVars, expired, nreq>>
    /\ quiet' = waited
    /\ waited' = wait_avr(0, WakeSegments[wk + 1][2])
    /\ wave' = wave \o Samples(WakeSegments[wk + 1])
    /\ UNCHANGED lcd
    /\ UNCHANGED <<gret, nirq, nlcd>>

\* USART_Init(47)
obd_init_uart ==
    /\ pc = "init_uart"
    /\ uart' = TRUE
    /\ pc' = "init_sync"
    /\ UNCHANGED <<PD1, wk, hsVars, reqVars, obd_info, uiVars, expired, nreq>>
    /\ UNCHANGED <<wave, waited, quiet, lcd>>
    /\ UNCHANGED <<gret, nirq, nlcd>>

\* unsigned char response = USART_Receive();
obd_init_sync ==
    /\ pc = "init_sync"
    /\ \E b \in LineBytes(SYNC_BYTE) : response' = b
    /\ nrecv' = nrecv + 1
    /\ pc' = "init_key1"
    /\ UNCHANGED <<PD1, wk, uart, keyByte1, keyByte2, ack2, reqVars, obd_info,
                   uiVars, expired, nreq>>
    /\ quiet' = waited
    /\ waited' = 0
    /\ UNCHANGED <<wave, lcd>>
    /\ UNCHANGED <<gret, nirq, nlcd>>

\* unsigned char keyByte1 = USART_Receive();
obd_init_key1 ==
    /\ pc = "init_key1"
    /\ \E b \in KeyBytes1 : keyByte1' = b
    /\ nrecv' = nrecv + 1
    /\ pc' = "init_key2"
    /\ UNCHANGED <<PD1, wk, uart, response, keyByte2, ack2, reqVars, obd_info,
                   uiVars, expired, nreq>>
    /\ quiet' = waited
    /\ waited' = 0
    /\ UNCHANGED <<wave, lcd>>
    /\ UNCHANGED <<gret, nirq, nlcd>>

\* unsigned char keyByte2 = USART_Receive();
obd_init_key2 ==
    /\ pc = "init_key2"
    /\ \E b \in Byte : keyByte2' = b
    /\ nrecv' = nrecv + 1
    /\ pc' = "init_ack1"
    /\ UNCHANGED <<PD1, wk, uart, response, keyByte1, ack2, reqVars, obd_info,
                   uiVars, expired, nreq>>
    /\ quiet' = waited
    /\ waited' = 0
    /\ UNCHANGED <<wave, lcd>>
    /\ UNCHANGED <<gret, nirq, nlcd>>

\* ack1 with the inversion left out
Ack1_NotInverted(k2) == k2

\* unsigned char ack1 = ~keyByte2;
Ack1(k2) == Compl(k2)

\* obd_init waiting 4 ms instead of 40
AckWait_Short == ACK_WAIT_MS \div 10

\* the wait before the acknowledgment is sent and before the vehicle's is read
AckWait == ACK_WAIT_MS

\* wait_avr(40); USART_Transmit(ack1);
obd_init_ack1 ==
    /\ pc = "init_ack1"
    /\ tx' = Append(tx, Ack1(keyByte2))
    /\ pc' = "init_ack2"
    /\ UNCHANGED <<PD1, wk, uart, hsVars, fn, echo, rx, checksum, result, ret,
                   rret, obd_info, uiVars, expired, nreq>>
    /\ quiet' = wait_avr(waited, AckWait)
    /\ waited' = 0
    /\ UNCHANGED <<wave, lcd>>
    /\ UNCHANGED <<gret, nirq, nlcd>>

\* wait_avr(40); unsigned char ack2 = USART_Receive();
obd_init_ack2 ==
    /\ pc = "init_ack2"
    /\ \E b \in LineBytes(Compl(ADDRESS_BYTE)) \cup {Ack1(keyByte2)} : ack2' = b
    /\ nrecv' = nrecv + 1
    /\ pc' = "init_ack2_again"
    /\ UNCHANGED <<PD1, wk, uart, response, keyByte1, keyByte2, reqVars, obd_info,
                   uiVars, expired, nreq>>
    /\ quiet' = wait_avr(waited, AckWait)
    /\ waited' = 0
    /\ UNCHANGED <<wave, lcd>>
    /\ UNCHANGED <<gret, nirq, nlcd>>

\* ack2 = USART_Receive();
obd_init_ack2_again ==
    /\ pc = "init_ack2_again"
    /\ \E b \in LineBytes(Compl(ADDRESS_BYTE)) : ack2' = b
    /\ nrecv' = nrecv + 1
    /\ pc' = "init_return"
    /\ UNCHANGED <<PD1, wk, uart, response, keyByte1, keyByte2, reqVars, obd_info,
                   uiVars, expired, nreq>>
    /\ quiet' = waited
    /\ waited' = 0
    /\ UNCHANGED <<wave, lcd>>
    /\ UNCHANGED <<gret, nirq, nlcd>>

\* clr_lcd(); and the return to main: the key bytes go out of scope, the
\* session counts as established from here
obd_init_return ==
    /\ pc = "init_return"
    /\ keyByte1' = NoByte
    /\ keyByte2' = NoByte
    /\ tx' = <<>>
    /\ expired' = FALSE
    /\ pc' = "main_setup"
    /\ UNCHANGED <<PD1, wk, uart, response, ack2, nrecv, fn, echo, rx, checksum,
                   result, ret, rret, obd_info, uiVars, nreq>>
    /\ lcd' = Blank
    /\ UNCHANGED <<wave, waited, quiet>>
    /\ UNCHANGED <<gret, nirq, nlcd>>

---------------------------------------------------------------------------
(* send_byte and send_cmd *)

\* number of bytes of the request frame of reader f
FrameLen(f) == CmdLen(f) + 4

\* the k-th byte (1-based) send_cmd passes to send_byte, ck the running checksum
FrameByte(f, k, ck) ==
    CASE k = 1 -> ToU8(CMD_LEN_OFFSET + CmdLen(f))
      [] k = 2 -> DESTINATION
      [] k = 3 -> SOURCE
      [] k > 3 /\ k < FrameLen(f) -> Cmd(f)[k - 3]
      [] k = FrameLen(f) -> ck

\* return value of send_byte: receive == data ? 0 : -1
send_byte(data, receive) == IF receive = data THEN 0 ELSE -1

\* the test  if (!send_byte(...)) return -1;  of send_cmd
SendByteAborts(data, receive) == LNot(send_byte(data, receive)) # 0

\* the length test with cmd_len left out of the comparison
LengthMismatch_NoCmdLen(receive, cmd_len, result_len) ==
    ToU8(receive - DATA_LEN_OFFSET) # result_len

\* the test  data_len - cmd_len != result_len  (data_len is an unsigned char,
\* the subtraction is done in the 16-bit size_t of the target)
LengthMismatch(receive, cmd_len, result_len) ==
    ToU16(ToU8(receive - DATA_LEN_OFFSET) - cmd_len) # result_len

\* entry of a reader up to its call of send_cmd: fresh locals
Call(f) ==
    /\ fn' = f
    /\ tx' = <<>>
    /\ echo' = <<>>
    /\ rx' = <<>>
    /\ checksum' = 0
    /\ result' = IF f = "pids" THEN <<>> ELSE [k \in 1..ResultLen(f) |-> Uninit]
    /\ ret' = NoRet
    /\ rret' = NoRet
    /\ nreq' = nreq + 1
    /\ pc' = "sc_tx"

\* send_cmd without its waits between the bytes
InterByteWait_None(k) == 0

\* the wait send_cmd makes before it sends byte k of the frame
InterByteWait(k) == IF k > 1 THEN INTER_BYTE_WAIT_MS ELSE 0

\* send_byte, first half: wait_avr(10) before every byte but the first, then
\* USART_Transmit
send_cmd_transmit ==
    /\ pc = "sc_tx"
    /\ LET k == Len(tx) + 1 IN
        tx' = Append(tx, FrameByte(fn, k, checksum))
    /\ pc' = "sc_echo"
    /\ UNCHANGED <<PD1, wk, uart, hsVars, fn, echo, rx, checksum, result, ret,
                   rret, obd_info, uiVars, expired, nreq>>
    /\ quiet' = wait_avr(waited, InterByteWait(Len(tx) + 1))
    /\ waited' = 0
    /\ UNCHANGED <<wave, lcd>>
    /\ UNCHANGED <<gret, nirq, nlcd>>

\* send_byte, second half: USART_Receive, the comparison, and send_cmd's test
\* of the value returned
send_cmd_echo ==
    /\ pc = "sc_echo"
    /\ LET k == Len(tx)
           data == tx[k] IN
       \E b \in LineBytes(data), stalled \in BOOLEAN :
        /\ echo' = Append(echo, b)
        /\ expired' = Received(expired, stalled)
        /\ IF SendByteAborts(data, b)
           THEN /\ ret' = -1
                /\ pc' = "rd_decode"
                /\ UNCHANGED checksum
           ELSE /\ ret' = ret
                /\ checksum' = IF k < FrameLen(fn) THEN ToU8(checksum + data)
                               ELSE checksum
                /\ pc' = IF k < FrameLen(fn) THEN "sc_tx" ELSE "sc_len"
    /\ UNCHANGED <<PD1, wk, uart, hsVars, fn, tx, rx, result, rret, obd_info,
                   uiVars, nreq>>
    /\ quiet' = waited
    /\ waited' = 0
    /\ UNCHANGED <<wave, lcd>>
    /\ UNCHANGED <<gret, nirq, nlcd>>

\* receive = USART_Receive(); data_len = receive - DATA_LEN_OFFSET; length test
send_cmd_len ==
    /\ pc = "sc_len"
    /\ \E b \in LenBytes, stalled \in BOOLEAN :
        /\ rx' = Append(rx, b)
        /\ expired' = Received(expired, stalled)
        /\ IF LengthMismatch(b, CmdLen(fn), ResultLen(fn))
           THEN ret' = -1 /\ pc' = "rd_decode"
           ELSE ret' = ret /\ pc' = "sc_dst"
    /\ UNCHANGED <<PD1, wk, uart, hsVars, fn, tx, echo, checksum, result, rret,
                   obd_info, uiVars, nreq>>
    /\ quiet' = waited
    /\ waited' = 0
    /\ UNCHANGED <<wave, lcd>>
    /\ UNCHANGED <<gret, nirq, nlcd>>

\* a comparison of a header or command byte that never fails
HeaderMismatch_Never(receive, expected) == FALSE

\* the tests  receive != DESTINATION,  receive != SOURCE,  receive != cmd[i]
HeaderMismatch(receive, expected) == receive # expected

\* receive = USART_Receive(); if (receive != DESTINATION) return -1;
send_cmd_dst ==
    /\ pc = "sc_dst"
    /\ \E b \in LineBytes(DESTINATION), stalled \in BOOLEAN :
        /\ rx' = Append(rx, b)
        /\ expired' = Received(expired, stalled)
        /\ IF HeaderMismatch(b, DESTINATION)
           THEN ret' = -1 /\ pc' = "rd_decode"
           ELSE ret' = ret /\ pc' = "sc_src"
    /\ UNCHANGED <<PD1, wk, uart, hsVars, fn, tx, echo, checksum, result, rret,
                   obd_info, uiVars, nreq>>
    /\ quiet' = waited
    /\ waited' = 0
    /\ UNCHANGED <<wave, lcd>>
    /\ UNCHANGED <<gret, nirq, nlcd>>

\* receive = USART_Receive(); if (receive != SOURCE) return -1;
send_cmd_src ==
    /\ pc = "sc_src"
    /\ \E b \in LineBytes(SOURCE), stalled \in BOOLEAN :
        /\ rx' = Append(rx, b)
        /\ expired' = Received(expired, stalled)
        /\ IF HeaderMismatch(b, SOURCE)
           THEN ret' = -1 /\ pc' = "rd_decode"
           ELSE ret' = ret /\ pc' = "sc_cmd"
    /\ UNCHANGED <<PD1, wk, uart, hsVars, fn, tx, echo, checksum, result, rret,
                   obd_info, uiVars, nreq>>
    /\ quiet' = waited
    /\ waited' = 0
    /\ UNCHANGED <<wave, lcd>>
    /\ UNCHANGED <<gret, nirq, nlcd>>

\* what the line may deliver where send_cmd reads cmd[i] back: the byte
\* itself, a corrupted one, and for the mode byte the response mode of the
\* README's response format, [40 + cmd(0)]
CmdBytes(f, i) ==
    LineBytes(Cmd(f)[i + 1])
        \cup (IF i = 0 THEN {RESPONSE_MODE_OFFSET + Cmd(f)[1]} ELSE {})

\* a pass over the command bytes that stores each received byte in the
\* result buffer before testing it
send_cmd_cmd_Stores ==
    /\ pc = "sc_cmd"
    /\ LET i == Len(rx) - 3 IN
       \E b \in CmdBytes(fn, i), stalled \in BOOLEAN :
        /\ rx' = Append(rx, b)
        /\ expired' = Received(expired, stalled)
        /\ IF fn = "pids"
           THEN /\ obd_info' = [obd_info EXCEPT !.s1pid00[1] = b]
                /\ UNCHANGED result
           ELSE /\ result' = [result EXCEPT ![1] = b]
                /\ UNCHANGED obd_info
        /\ IF HeaderMismatch(b, Cmd(fn)[i + 1])
           THEN ret' = -1 /\ pc' = "rd_decode"
           ELSE /\ ret' = ret
                /\ pc' = IF i + 1 < CmdLen(fn) THEN "sc_cmd" ELSE "sc_res"
    /\ UNCHANGED <<PD1, wk, uart, hsVars, fn, tx, echo, checksum, rret,
                   uiVars, nreq>>
    /\ quiet' = waited
    /\ waited' = 0
    /\ UNCHANGED <<wave, lcd>>
    /\ UNCHANGED <<gret, nirq, nlcd>>

\* one pass of  for (i = 0; i < cmd_len; ++i)  over the echoed command bytes
send_cmd_cmd ==
    /\ pc = "sc_cmd"
    /\ LET i == Len(rx) - 3 IN
       \E b \in CmdBytes(fn, i), stalled \in BOOLEAN :
        /\ rx' = Append(rx, b)
        /\ expired' = Received(expired, stalled)
        /\ IF HeaderMismatch(b, Cmd(fn)[i + 1])
           THEN ret' = -1 /\ pc' = "rd_decode"
           ELSE /\ ret' = ret
                /\ pc' = IF i + 1 < CmdLen(fn) THEN "sc_cmd" ELSE "sc_res"
    /\ UNCHANGED <<PD1, wk, uart, hsVars, fn, tx, echo, checksum, result, rret,
                   obd_info, uiVars, nreq>>
    /\ quiet' = waited
    /\ waited' = 0
    /\ UNCHANGED <<wave, lcd>>
    /\ UNCHANGED <<gret, nirq, nlcd>>

\* every caller passing obd_info->s1pid00 as its result buffer
result_buf_Shared(f) == "s1pid00"

\* the result_buf argument of send_cmd: obd_info->s1pid00 in
\* get_service1_supported_pids, the local result[] in the four readers
result_buf(f) == IF f = "pids" THEN "s1pid00" ELSE "result"

\* one pass of  for (i = 0; i < result_len; ++i) result_buf[i] = USART_Receive();
\* result_buf is obd_info->s1pid00 for the supported-PID read, else result[]
send_cmd_result ==
    /\ pc = "sc_res"
    /\ LET i == Len(rx) - 3 - CmdLen(fn) IN
       \E b \in PayloadBytes(SubSeq(rx, 4 + CmdLen(fn), Len(rx)), ResultLen(fn)),
          stalled \in BOOLEAN :
        /\ rx' = Append(rx, b)
        /\ expired' = Received(expired, stalled)
        /\ IF result_buf(fn) = "s1pid00"
           THEN /\ obd_info' = [obd_info EXCEPT !.s1pid00[i + 1] = b]
                /\ UNCHANGED result
           ELSE /\ result' = [result EXCEPT ![i + 1] = b]
                /\ UNCHANGED obd_info
        /\ pc' = IF i + 1 < ResultLen(fn) THEN "sc_res" ELSE "sc_cks"
    /\ UNCHANGED <<PD1, wk, uart, hsVars, fn, tx, echo, checksum, ret, rret,
                   uiVars, nreq>>
    /\ quiet' = waited
    /\ waited' = 0
    /\ UNCHANGED <<wave, lcd>>
    /\ UNCHANGED <<gret, nirq, nlcd>>

\* the sum of the bytes of q, as an unsigned char
RECURSIVE SumBytes(_)
SumBytes(q) == IF q = <<>> THEN 0 ELSE ToU8(Head(q) + SumBytes(Tail(q)))

\* a send_cmd that compares the last byte with the sum of the response
send_cmd_checksum_Verified ==
    /\ pc = "sc_cks"
    /\ \E b \in ChecksumBytes :
        /\ rx' = Append(rx, b)
        /\ ret' = IF b = SumBytes(rx) THEN 0 ELSE -1
    /\ expired' = FALSE
    /\ pc' = "rd_decode"
    /\ UNCHANGED <<PD1, wk, uart, hsVars, fn, tx, echo, checksum, result, rret,
                   obd_info, uiVars, nreq>>
    /\ quiet' = waited
    /\ waited' = 0
    /\ UNCHANGED <<wave, lcd>>
    /\ UNCHANGED <<gret, nirq, nlcd>>

\* receive = USART_Receive();  (the response checksum, not looked at)  return 0;
\* a request/response cycle has completed: the keep-alive interval starts again
send_cmd_checksum ==
    /\ pc = "sc_cks"
    /\ \E b \in ChecksumBytes :
        rx' = Append(rx, b)
    /\ ret' = 0
    /\ expired' = FALSE
    /\ pc' = "rd_decode"
    /\ UNCHANGED <<PD1, wk, uart, hsVars, fn, tx, echo, checksum, result, rret,
                   obd_info, uiVars, nreq>>
    /\ quiet' = waited
    /\ waited' = 0
    /\ UNCHANGED <<wave, lcd>>
    /\ UNCHANGED <<gret, nirq, nlcd>>

---------------------------------------------------------------------------
(* The readers *)

\* the test  if (!send_cmd(...))  of every reader
ReaderFails(r) == LNot(r) # 0

\* what reading the array res can yield: a never-written element has an
\* indeterminate value
ReadBytes(res) ==
    { [k \in DOMAIN res |-> IF res[k] = Uninit THEN g[k] ELSE res[k]] :
        g \in GarbageArrays(Len(res)) }

\* the load computed with the division made first
DecodeLoad_DivideFirst(A) == ToU8(CDiv(A, 255) * 100)

\* the load scaled to 0..255 instead of 0..100
DecodeLoad_NotScaled(A) == ToU8(CDiv(A * 255, 255))

\* result[0] * 100 / 255, stored in an unsigned char
DecodeLoad(A) == ToU8(CDiv(A * 100, 255))

\* result[0] - 40, stored in a signed char
DecodeTemp(A) == ToS8(A - 40)

\* (result[0] * 256 + result[1]) / 4 in 16-bit int, stored in an unsigned
\* short.  The sum overflows int for A >= 128: the build either wraps it or
\* computes as if it had not overflowed.
DecodeRpm(A, B) ==
    LET v == A * 256 + B IN
    IF v <= 32767 THEN {ToU16(CDiv(v, 4))}
    ELSE {ToU16(CDiv(ToS16(v), 4)), ToU16(CDiv(v, 4))}

\* result[0], stored in an unsigned char
DecodeSpeed(A) == A

\* get_service1_supported_pids after its send_cmd returned; main then runs sei()
get_service1_supported_pids ==
    /\ pc = "rd_decode"
    /\ fn = "pids"
    /\ rret' = IF ReaderFails(ret) THEN -1 ELSE 0
    /\ pc' = "main_sei"
    /\ UNCHANGED <<PD1, wk, uart, hsVars, fn, tx, echo, rx, checksum, result, ret,
                   obd_info, uiVars, expired, nreq>>
    /\ UNCHANGED <<wave, waited, quiet, lcd>>
    /\ UNCHANGED <<gret, nirq, nlcd>>

get_engine_load ==
    /\ pc = "rd_decode"
    /\ fn = "load"
    /\ IF ReaderFails(ret)
       THEN /\ obd_info' = [obd_info EXCEPT !.load = 0]
            /\ rret' = -1
       ELSE /\ \E r \in ReadBytes(result) :
                 obd_info' = [obd_info EXCEPT !.load = DecodeLoad(r[1])]
            /\ rret' = 0
    /\ pc' = "rd_done"
    /\ UNCHANGED <<PD1, wk, uart, hsVars, fn, tx, echo, rx, checksum, result, ret,
                   uiVars, expired, nreq>>
    /\ UNCHANGED <<wave, waited, quiet, lcd>>
    /\ UNCHANGED <<gret, nirq, nlcd>>

get_engine_coolant_temp ==
    /\ pc = "rd_decode"
    /\ fn = "temp"
    /\ IF ReaderFails(ret)
       THEN /\ obd_info' = [obd_info EXCEPT !.temperature = 0]
            /\ rret' = -1
       ELSE /\ \E r \in ReadBytes(result) :
                 obd_info' = [obd_info EXCEPT !.temperature = DecodeTemp(r[1])]
            /\ rret' = 0
    /\ pc' = "rd_done"
    /\ UNCHANGED <<PD1, wk, uart, hsVars, fn, tx, echo, rx, checksum, result, ret,
                   uiVars, expired, nreq>>
    /\ UNCHANGED <<wave, waited, quiet, lcd>>
    /\ UNCHANGED <<gret, nirq, nlcd>>

get_engine_rpm ==
    /\ pc = "rd_decode"
    /\ fn = "rpm"
    /\ IF ReaderFails(ret)
       THEN /\ obd_info' = [obd_info EXCEPT !.rpm = 0]
            /\ rret' = -1
       ELSE /\ \E r \in ReadBytes(result) : \E v \in DecodeRpm(r[1], r[2]) :
                 obd_info' = [obd_info EXCEPT !.rpm = v]
            /\ rret' = 0
    /\ pc' = "rd_done"
    /\ UNCHANGED <<PD1, wk, uart, hsVars, fn, tx, echo, rx, checksum, result, ret,
                   uiVars, expired, nreq>>
    /\ UNCHANGED <<wave, waited, quiet, lcd>>
    /\ UNCHANGED <<gret, nirq, nlcd>>

get_vehicle_speed ==
    /\ pc = "rd_decode"
    /\ fn = "speed"
    /\ IF ReaderFails(ret)
       THEN /\ obd_info' = [obd_info EXCEPT !.speed = 0]
            /\ rret' = -1
       ELSE /\ \E r \in ReadBytes(result) :
                 obd_info' = [obd_info EXCEPT !.speed = DecodeSpeed(r[1])]
            /\ rret' = 0
    /\ pc' = "rd_done"
    /\ UNCHANGED <<PD1, wk, uart, hsVars, fn, tx, echo, rx, checksum, result, ret,
                   uiVars, expired, nreq>>
    /\ UNCHANGED <<wave, waited, quiet, lcd>>
    /\ UNCHANGED <<gret, nirq, nlcd>>

---------------------------------------------------------------------------
(* get_obd_data *)

\* get_obd_data waiting 6500 ms instead of 65
InterRequestWait_Long == 100 * INTER_REQUEST_WAIT_MS

\* get_obd_data waiting between requests no longer than between bytes
InterRequestWait_Short == INTER_BYTE_WAIT_MS

\* the wait get_obd_data makes before each reader
InterRequestWait == INTER_REQUEST_WAIT_MS

\* wait_avr(65); then the next of the four readers, up to its send_cmd
get_obd_data ==
    /\ nreq < MaxRequests
    /\ \/ pc = "poll"
       \/ pc = "rd_done" /\ NextReader(fn) # "none"
    /\ Call(IF pc = "poll" THEN "load" ELSE NextReader(fn))
    /\ UNCHANGED <<PD1, wk, uart, hsVars, obd_info, uiVars, expired>>
    /\ waited' = wait_avr(waited, InterRequestWait)
    /\ UNCHANGED <<wave, quiet, lcd>>
    /\ UNCHANGED <<gret, nirq, nlcd>>

\* get_obd_data handing back the value of a reader that failed, at once
get_obd_data_return_Propagates ==
    /\ pc = "rd_done"
    /\ NextReader(fn) = "none" \/ rret = -1
    /\ fn' = "none"
    /\ tx' = <<>>
    /\ echo' = <<>>
    /\ rx' = <<>>
    /\ checksum' = 0
    /\ result' = <<>>
    /\ ret' = NoRet
    /\ rret' = NoRet
    /\ pc' = "main_key"
    /\ UNCHANGED <<PD1, wk, uart, hsVars, obd_info, uiVars, expired, nreq>>
    /\ UNCHANGED <<wave, waited, quiet, lcd>>
    /\ gret' = IF rret = -1 THEN -1 ELSE 0
    /\ UNCHANGED <<nirq, nlcd>>

\* return 0; after the fourth reader, whatever the readers returned
get_obd_data_return ==
    /\ pc = "rd_done"
    /\ NextReader(fn) = "none"
    /\ fn' = "none"
    /\ tx' = <<>>
    /\ echo' = <<>>
    /\ rx' = <<>>
    /\ checksum' = 0
    /\ result' = <<>>
    /\ ret' = NoRet
    /\ rret' = NoRet
    /\ pc' = "main_key"
    /\ UNCHANGED <<PD1, wk, uart, hsVars, obd_info, uiVars, expired, nreq>>
    /\ UNCHANGED <<wave, waited, quiet, lcd>>
    /\ gret' = 0
    /\ UNCHANGED <<nirq, nlcd>>

---------------------------------------------------------------------------
(* main and the timer interrupt *)

\* timer_setup(); cli(); wait_avr(100); mode = 0; page = 0; and the call of
\* get_service1_supported_pids up to its send_cmd
main_setup ==
    /\ pc = "main_setup"
    /\ ie' = FALSE
    /\ mode' = 0
    /\ page' = 0
    /\ Call("pids")
    /\ UNCHANGED <<PD1, wk, uart, hsVars, obd_info, timer_flag, expired>>
    /\ waited' = wait_avr(waited, SETUP_WAIT_MS)
    /\ UNCHANGED <<wave, quiet, lcd, keyPressed>>
    /\ UNCHANGED <<gret, nirq, nlcd>>

\* sei(); then the while (1) loop is entered
main_sei ==
    /\ pc = "main_sei"
    /\ ie' = TRUE
    /\ pc' = "poll"
    /\ UNCHANGED <<PD1, wk, uart, hsVars, reqVars, obd_info, mode, page,
                   timer_flag, expired, nreq>>
    /\ UNCHANGED <<wave, waited, quiet, lcd, keyPressed>>
    /\ UNCHANGED <<gret, nirq, nlcd>>

\* keyPressed = get_key(); and the two toggles
main_key ==
    /\ pc = "main_key"
    /\ \E key \in Keys :
        /\ keyPressed' = key
        /\ page' = IF key = KEY_PAGE THEN 1 - page ELSE page
        /\ mode' = IF key # KEY_PAGE /\ key = KEY_MODE
                   THEN 1 - mode ELSE mode
    /\ pc' = "main_spin"
    /\ UNCHANGED <<PD1, wk, uart, hsVars, reqVars, obd_info, timer_flag, ie,
                   expired, nreq>>
    /\ UNCHANGED <<wave, waited, quiet, lcd>>
    /\ UNCHANGED <<gret, nirq, nlcd>>

\* update_lcd testing page before mode
update_lcd_PageFirst(m, p, info) ==
    IF p = 1
    THEN [kind |-> "load_temp", line0 |-> <<info.load>>,
          line1 |-> <<info.temperature>>]
    ELSE IF m = 1
    THEN [kind |-> "pids", line0 |-> info.s1pid00, line1 |-> <<>>]
    ELSE [kind |-> "rpm_speed", line0 |-> <<ToS16(info.rpm)>>,
          line1 |-> <<info.speed>>]

\* update_lcd: the screen chosen by mode and page, and the values that the
\* sprintf calls format (%02X of each s1pid00 byte; %i, a signed int, of the
\* other fields); the second line is drawn only when mode is 0
update_lcd(m, p, info) ==
    IF m = 1
    THEN [kind |-> "pids", line0 |-> info.s1pid00, line1 |-> <<>>]
    ELSE IF p = 0
    THEN [kind |-> "rpm_speed", line0 |-> <<ToS16(info.rpm)>>,
          line1 |-> <<info.speed>>]
    ELSE [kind |-> "load_temp", line0 |-> <<info.load>>,
          line1 |-> <<info.temperature>>]

\* time spent in while (!timer_flag): none when the flag is already up, at
\* most one period of the timer otherwise
SpinTime == {0, TIMER_PERIOD_MS}

\* a loop that goes on to clear the flag without having seen it set
main_wait_flag_NoGate ==
    /\ pc = "main_spin"
    /\ pc' = "main_clear"
    /\ UNCHANGED <<PD1, wk, uart, hsVars, reqVars, obd_info, uiVars, expired, nreq>>
    /\ \E d \in SpinTime : waited' = waited + d
    /\ UNCHANGED <<wave, quiet, lcd>>
    /\ UNCHANGED <<gret, nirq, nlcd>>

\* while (!timer_flag);  the loop is left once the flag is seen set
main_wait_flag ==
    /\ pc = "main_spin"
    /\ timer_flag # 0
    /\ pc' = "main_clear"
    /\ UNCHANGED <<PD1, wk, uart, hsVars, reqVars, obd_info, uiVars, expired, nreq>>
    /\ \E d \in SpinTime : waited' = waited + d
    /\ UNCHANGED <<wave, quiet, lcd>>
    /\ UNCHANGED <<gret, nirq, nlcd>>

\* timer_flag = 0;
main_clear_flag ==
    /\ pc = "main_clear"
    /\ timer_flag' = 0
    /\ pc' = "main_lcd"
    /\ UNCHANGED <<PD1, wk, uart, hsVars, reqVars, obd_info, mode, page, ie, expired, nreq>>
    /\ UNCHANGED <<wave, waited, quiet, lcd, keyPressed>>
    /\ UNCHANGED <<gret, nirq, nlcd>>

\* update_lcd();
main_refresh ==
    /\ pc = "main_lcd"
    /\ pc' = "poll"
    /\ UNCHANGED <<PD1, wk, uart, hsVars, reqVars, obd_info, uiVars, expired, nreq>>
    /\ lcd' = update_lcd(mode, page, obd_info)
    /\ UNCHANGED <<wave, waited, quiet>>
    /\ nlcd' = Count(nlcd)
    /\ UNCHANGED <<gret, nirq>>

\* an interrupt routine that also redraws the display
TIMER1_COMPA_vect_Redraws ==
    /\ ie
    /\ timer_flag' = 1
    /\ lcd' = update_lcd(mode, page, obd_info)
    /\ UNCHANGED <<pc, PD1, wk, uart, hsVars, reqVars, obd_info, mode, page, ie,
                   expired, nreq, wave, waited, quiet, keyPressed>>
    /\ nirq < MaxInterrupts
    /\ nirq' = Count(nirq)
    /\ UNCHANGED <<gret, nlcd>>

\* ISR(TIMER1_COMPA_vect), whenever interrupts are enabled
TIMER1_COMPA_vect ==
    /\ ie
    /\ timer_flag' = 1
    /\ UNCHANGED <<pc, PD1, wk, uart, hsVars, reqVars, obd_info, mode, page, ie,
                   expired, nreq>>
    /\ UNCHANGED <<wave, waited, quiet, lcd, keyPressed>>
    /\ nirq < MaxInterrupts
    /\ nirq' = Count(nirq)
    /\ UNCHANGED <<gret, nlcd>>

---------------------------------------------------------------------------

Next ==
    \/ obd_init_reset
    \/ obd_init_wake
    \/ obd_init_uart
    \/ obd_init_sync
    \/ obd_init_key1
    \/ obd_init_key2
    \/ obd_init_ack1
    \/ obd_init_ack2
    \/ obd_init_ack2_again
    \/ obd_init_return
    \/ main_setup
    \/ send_cmd_transmit
    \/ send_cmd_echo
    \/ send_cmd_len
    \/ send_cmd_dst
    \/ send_cmd_src
    \/ send_cmd_cmd
    \/ send_cmd_result
    \/ send_cmd_checksum
    \/ get_service1_supported_pids
    \/ main_sei
    \/ get_obd_data
    \/ get_engine_load
    \/ get_engine_coolant_temp
    \/ get_engine_rpm
    \/ get_vehicle_speed
    \/ get_obd_data_return
    \/ main_key
    \/ main_wait_flag
    \/ main_clear_flag
    \/ main_refresh
    \/ TIMER1_COMPA_vect

Spec == Init /\ [][Next]_vars

\* every step of the main flow of control: all but the interrupt
MainFlow ==
    \/ obd_init_reset
    \/ obd_init_wake
    \/ obd_init_uart
    \/ obd_init_sync
    \/ obd_init_key1
    \/ obd_init_key2
    \/ obd_init_ack1
    \/ obd_init_ack2
    \/ obd_init_ack2_again
    \/ obd_init_return
    \/ main_setup
    \/ send_cmd_transmit
    \/ send_cmd_echo
    \/ send_cmd_len
    \/ send_cmd_dst
    \/ send_cmd_src
    \/ send_cmd_cmd
    \/ send_cmd_result
    \/ send_cmd_checksum
    \/ get_service1_supported_pids
    \/ main_sei
    \/ get_obd_data
    \/ get_engine_load
    \/ get_engine_coolant_temp
    \/ get_engine_rpm
    \/ get_vehicle_speed
    \/ get_obd_data_return
    \/ main_key
    \/ main_wait_flag
    \/ main_clear_flag
    \/ main_refresh

\* The main flow never stops while it has a step to take (the processor
\* keeps executing); nothing is assumed of when the timer interrupts.
SpecLive == Init /\ [][Next]_vars /\ WF_vars(MainFlow)

---------------------------------------------------------------------------
(* The inline polling loop that get_obd_data replaced *)

\* the bytes the inline loop transmits for each request, as written there
LegacyRequest(f) ==
    CASE f = "load"  -> <<104, 106, 241, 1, 4, 200>>
      [] f = "temp"  -> <<104, 106, 241, 1, 5, 201>>
      [] f = "rpm"   -> <<104, 106, 241, 1, 12, 208>>
      [] f = "speed" -> <<104, 106, 241, 1, 13, 209>>

\* the number of response bytes the inline loop reads into s1pid04, s1pid05,
\* s1pid0c and s1pid0d
LegacyResponseLen(f) ==
    CASE f = "load"  -> 7
      [] f = "temp"  -> 7
      [] f = "rpm"   -> 8
      [] f = "speed" -> 7

\* the values the inline loop computes from a response buffer: element [5]
\* (and [6] for the rpm) of the buffer, stored in the globals load (unsigned
\* char), temperature (signed char), rpm (unsigned short), speed (unsigned
\* char); the rpm sum overflows int as in DecodeRpm
LegacyDecode(f, buf) ==
    CASE f = "load"  -> {ToU8(CDiv(buf[6] * 100, 255))}
      [] f = "temp"  -> {ToS8(buf[6] - 40)}
      [] f = "rpm"   -> LET v == buf[6] * 256 + buf[7] IN
                        IF v <= 32767 THEN {ToU16(CDiv(v, 4))}
                        ELSE {ToU16(CDiv(ToS16(v), 4)), ToU16(CDiv(v, 4))}
      [] f = "speed" -> {buf[6]}

---------------------------------------------------------------------------
(* The readers' decoding, over every value of the bytes they read *)

\* A reader at its test of send_cmd's return value, in the session that a
\* good handshake opened: send_cmd returned -1 after the echo of its first
\* byte, and result[], which send_cmd never wrote, holds whatever bytes the
\* stack held.
InitDecode ==
    /\ pc = "rd_decode"
    /\ PD1 = 1
    /\ wk = Len(WakeSegments)
    /\ uart = TRUE
    /\ response = SYNC_BYTE
    /\ keyByte1 = NoByte
    /\ keyByte2 = NoByte
    /\ ack2 = Compl(ADDRESS_BYTE)
    /\ nrecv = 5
    /\ fn \in Readers \ {"pids"}
    /\ tx = <<FrameByte(fn, 1, 0)>>
    /\ echo = tx
    /\ rx = <<>>
    /\ checksum = 0
    /\ result \in [1..ResultLen(fn) -> Byte]
    /\ ret = -1
    /\ rret = NoRet
    /\ obd_info = InitInfo
    /\ mode = 0
    /\ page = 0
    /\ timer_flag = 0
    /\ ie = TRUE
    /\ expired = FALSE
    /\ nreq = 2
    /\ wave = Samples(WakeSegments[1]) \o Samples(WakeSegments[2])
                \o Samples(WakeSegments[3]) \o Samples(WakeSegments[4])
                \o Samples(WakeSegments[5]) \o Samples(WakeSegments[6])
    /\ waited = 0
    /\ quiet = 0
    /\ lcd = Blank
    /\ keyPressed = NoByte
    /\ gret = NoRet
    /\ nirq = NotCounted
    /\ nlcd = NotCounted

NextDecode ==
    \/ get_engine_load
    \/ get_engine_coolant_temp
    \/ get_engine_rpm
    \/ get_vehicle_speed

SpecDecode == InitDecode /\ [][NextDecode]_vars

---------------------------------------------------------------------------
(* The keypad and the display, from every mode and page *)

\* what obd_info holds after a polling cycle: the supported-PID bytes as
\* they were received or never written, and the four readings
InfoAfterCycle ==
    { [InitInfo EXCEPT !.s1pid00 = q, !.load = DecodeLoad(g[1]),
                       !.temperature = DecodeTemp(g[1]), !.speed = DecodeSpeed(g[1])] :
        q \in {InitInfo.s1pid00} \cup Payloads(4), g \in GarbageArrays(1) }

\* main in some iteration of its loop, get_obd_data having returned: mode
\* and page as earlier key presses left them, the LCD as an earlier
\* update_lcd drew it
InitKeys ==
    /\ pc = "main_key"
    /\ PD1 = 1
    /\ wk = Len(WakeSegments)
    /\ uart = TRUE
    /\ response = SYNC_BYTE
    /\ keyByte1 = NoByte
    /\ keyByte2 = NoByte
    /\ ack2 = Compl(ADDRESS_BYTE)
    /\ nrecv = 5
    /\ fn = "none"
    /\ tx = <<>>
    /\ echo = <<>>
    /\ rx = <<>>
    /\ checksum = 0
    /\ result = <<>>
    /\ ret = NoRet
    /\ rret = NoRet
    /\ obd_info \in InfoAfterCycle
    /\ mode \in {0, 1}
    /\ page \in {0, 1}
    /\ timer_flag \in {0, 1}
    /\ ie = TRUE
    /\ expired = FALSE
    /\ nreq = MaxRequests
    /\ wave = Samples(WakeSegments[1]) \o Samples(WakeSegments[2])
                \o Samples(WakeSegments[3]) \o Samples(WakeSegments[4])
                \o Samples(WakeSegments[5]) \o Samples(WakeSegments[6])
    /\ waited = 0
    /\ quiet = 0
    /\ lcd \in { update_lcd(m, p, obd_info) : m \in {0, 1}, p \in {0, 1} }
    /\ keyPressed \in Keys
    /\ gret = 0
    /\ nirq \in 0..(MaxInterrupts - 1)
    /\ nlcd \in 0..nirq
    /\ timer_flag = 1 => nlcd < nirq

NextKeys ==
    \/ main_key
    \/ main_wait_flag
    \/ main_clear_flag
    \/ main_refresh
    \/ TIMER1_COMPA_vect

SpecKeys == InitKeys /\ [][NextKeys]_vars

---------------------------------------------------------------------------
(* Properties *)

HandshakePcs == {"init_reset", "init_wake", "init_uart", "init_sync", "init_key1",
                 "init_key2", "init_ack1", "init_ack2", "init_ack2_again",
                 "init_return"}

\* the last handshake received the sync byte 0x55 and the acknowledgment 0xCC
HandshakeSucceeded ==
    /\ response = SYNC_BYTE
    /\ ack2 = Compl(ADDRESS_BYTE)

\* every byte transmitted so far in the current request came back unchanged
AllEchoed == \A k \in 1..Len(echo) : echo[k] = tx[k]

\* the response bytes read so far are those of a well-formed response frame
WellFormedSoFar ==
    \A k \in 1..Len(rx) :
        CASE k = 1 -> rx[k] = DATA_LEN_OFFSET + CmdLen(fn) + ResultLen(fn)
          [] k = 2 -> rx[k] = DESTINATION
          [] k = 3 -> rx[k] = SOURCE
          [] k > 3 /\ k <= 3 + CmdLen(fn) -> rx[k] = Cmd(fn)[k - 3]
          [] OTHER -> TRUE

\* the exchange of the current reader passed every check of the frame codec
ExchangeValidated ==
    /\ Len(tx) = FrameLen(fn)
    /\ Len(echo) = FrameLen(fn)
    /\ AllEchoed
    /\ Len(rx) >= 3 + CmdLen(fn)
    /\ WellFormedSoFar

\* C1: no request byte is transmitted unless the last handshake succeeded
\* (sync byte 0x55 and final acknowledgment 0xCC were received).
C1_RequestOnlyWhenReady ==
    (fn \in Readers /\ Len(tx) > 0) => HandshakeSucceeded

\* C2: an echo that differs from the byte sent at position k makes send_cmd
\* return an error at once, with no further byte of the request transmitted.
C2_EchoMismatchAborts ==
    \A k \in 1..Len(echo) :
        (fn \in Readers /\ echo[k] # tx[k]) => (Len(tx) = k /\ ret = -1)

\* C3: when every request byte is echoed unchanged and the response read so
\* far is well formed, send_cmd does not return an error (it returns 0 with
\* the result bytes once the frame is complete).
C3_EchoedRequestSucceeds ==
    (fn \in Readers /\ Len(echo) > 0 /\ AllEchoed /\ WellFormedSoFar) => ret # -1

\* the request frames named by the comments of the readers
ExpectedFrame(f) ==
    CASE f = "pids"  -> <<104, 106, 241, 1, 0, 196>>
      [] f = "load"  -> <<104, 106, 241, 1, 4, 200>>
      [] f = "temp"  -> <<104, 106, 241, 1, 5, 201>>
      [] f = "rpm"   -> <<104, 106, 241, 1, 12, 208>>
      [] f = "speed" -> <<104, 106, 241, 1, 13, 209>>

\* C4: on a line that echoes every byte unchanged, the bytes a finished
\* send_cmd has transmitted are exactly the request frame of its PID
\* (68 6A F1 01 0C D0 for the RPM read).
C4_RequestFrameOnEchoingLine ==
    (fn \in Readers /\ ret # NoRet /\ Len(echo) = Len(tx) /\ AllEchoed)
        => tx = ExpectedFrame(fn)

\* C5: after a sync byte other than 0x55, obd_init receives no key byte and
\* transmits no acknowledgment.
C5_BadSyncStopsHandshake ==
    (response # NoByte /\ response # SYNC_BYTE) => (nrecv = 1 /\ tx = <<>>)

\* C6: after a final acknowledgment other than 0xCC, no request is issued.
C6_BadAckNoRequest ==
    (nrecv = 5 /\ ack2 # Compl(ADDRESS_BYTE)) => nreq = 0

\* C7: the only byte obd_init transmits is the complement of key byte 2
\* (0xF7 for 0x08), after both key bytes were received; and a handshake that
\* received 0x55, 08 08 and 0xCC as acknowledgment returns to main, which
\* goes on to the first request.
C7_AckSent ==
    pc \in HandshakePcs =>
        /\ Len(tx) <= 1
        /\ Len(tx) = 1 => /\ nrecv >= 3
                          /\ keyByte2 \in Byte
                          /\ tx[1] = 255 - keyByte2
                          /\ tx[1] + keyByte2 = 255
                          /\ (keyByte2 = 8 => tx[1] = 247)
        /\ (pc \in {"init_ack2", "init_ack2_again", "init_return"}) => Len(tx) = 1

C7_GoodHandshakeReturns ==
    (/\ pc = "init_return"
     /\ response = SYNC_BYTE
     /\ keyByte1 = 8
     /\ keyByte2 = 8
     /\ ack2 = Compl(ADDRESS_BYTE))
        => (pc' = "main_setup" /\ tx' = <<>> /\ ~expired')

C8_FreshOnlyIfValidated ==
    (fn \in Readers /\ rret = 0) => ExchangeValidated

\* the claim's reading of the length test, in unbounded integers
ClaimedLengthMismatch(b, f) == (b - 66) - CmdLen(f) # ResultLen(f)

\* the result buffer of the current send_cmd was never written
ResultUntouched ==
    IF fn = "pids" THEN obd_info.s1pid00 = InitInfo.s1pid00
    ELSE \A k \in 1..Len(result) : result[k] = Uninit

\* C9: a response whose first byte b has (b - 0x42) - cmd_len # result_len is
\* rejected: send_cmd returns an error after that byte and has written
\* nothing to result_buf; this for every byte value b.
C9_LengthMismatchRejected ==
    /\ (fn \in Readers /\ Len(rx) >= 1 /\ ClaimedLengthMismatch(rx[1], fn))
          => (ret = -1 /\ Len(rx) = 1 /\ ResultUntouched)
    /\ pc = "sc_len" =>
          \A b \in Byte : ClaimedLengthMismatch(b, fn)
                             => LengthMismatch(b, CmdLen(fn), ResultLen(fn))

C9_Witness ==
    /\ fn = "rpm"
    /\ rx = <<0>>
    /\ ret = -1
    /\ pc = "rd_decode"

\* C10: once the keep-alive ceiling has been exceeded, the next request
\* does not transmit its first byte.
C10_NoTransmitAfterExpiry ==
    [][(expired /\ pc = "sc_tx" /\ tx = <<>>) => tx' = <<>>]_vars

---------------------------------------------------------------------------
(* Timing of the requests *)

\* ceilings and floors of the README's timing paragraph, in ms
KEEPALIVE_MS == 5000
MIN_RESET_MS == 2600
MIN_ACK_WAIT_MS == 40
MIN_REQUEST_GAP_MS == 65
MIN_BYTE_GAP_MS == 10

\* the first byte of a request has just been transmitted
FirstByteSent == pc = "sc_echo" /\ Len(tx) = 1

\* C11: while the session is open, no more than 5000 ms lie between the
\* last operation on the line of one request/response cycle and the first
\* byte of the next request, in every iteration of the polling loop, the
\* timer firing every 500 ms.
C11_KeepAliveGap ==
    (FirstByteSent /\ ~expired) => quiet <= KEEPALIVE_MS

C11_Witness ==
    /\ FirstByteSent
    /\ ~expired
    /\ fn = "load"
    /\ nreq = 6
    /\ quiet = TIMER_PERIOD_MS + INTER_REQUEST_WAIT_MS

---------------------------------------------------------------------------
(* Decoding *)

\* the reader named f has decoded result[] and stored the value
Decoded(f) == pc = "rd_done" /\ fn = f /\ rret = 0

\* C12: for every raw byte A in 0..255 that get_engine_load decodes, the
\* stored load is floor(A * 100 / 255).
C12_LoadFormula ==
    Decoded("load") => obd_info.load = (result[1] * 100) \div 255

C12_Witness ==
    /\ Decoded("load")
    /\ result[1] = 128
    /\ obd_info.load = 50

\* C13 as stated: for every raw byte A in 0..255 the decoded load lies in
\* 0..99.
C13_LoadBelow100 ==
    Decoded("load") => obd_info.load \in 0..99

\* C13: for every raw byte A in 0..255 the decoded load lies in 0..100, and
\* it is 100 for A = 255 only.
C13_LoadRange ==
    Decoded("load") =>
        /\ obd_info.load \in 0..100
        /\ obd_info.load = 100 <=> result[1] = 255

C13_Witness ==
    /\ Decoded("load")
    /\ result[1] = 255
    /\ obd_info.load = 100

\* C14: for every raw byte A in 0..255 that get_engine_coolant_temp decodes,
\* the value stored in obd_info->temperature is A - 40, between -40 and 215.
C14_TemperatureFormula ==
    Decoded("temp") =>
        /\ obd_info.temperature = result[1] - 40
        /\ obd_info.temperature \in -40..215

\* C15: for every pair of raw bytes (A, B) that get_engine_rpm decodes, the
\* value stored in obd_info->rpm is floor((A * 256 + B) / 4).
C15_RpmFormula ==
    Decoded("rpm") => obd_info.rpm = (result[1] * 256 + result[2]) \div 4

---------------------------------------------------------------------------
(* The handshake's waveform and waits *)

\* the sum of the durations of the segments s[1..n]
RECURSIVE SumMs(_, _)
SumMs(s, n) == IF n = 0 THEN 0 ELSE s[n][2] + SumMs(s, n - 1)

\* one start bit, the 8 bits of byte b from the least significant, one stop bit
SerialFrame(b) ==
    <<0>> \o [i \in 1..8 |-> (b \div 2^(i - 1)) % 2] \o <<1>>

\* C16: the wake-up waveform, sampled once per 200 ms bit period, is low,
\* high, high, low, low, high, high, low, low, high: the start bit, the 8
\* bits of 0x33 from the least significant, the stop bit; 2000 ms in total.
C16_WakeWaveform ==
    /\ Len(wave) <= 10
    /\ wave = SubSeq(<<0, 1, 1, 0, 0, 1, 1, 0, 0, 1>>, 1, Len(wave))
    /\ pc \notin {"init_reset", "init_wake"} =>
          /\ wave = <<0, 1, 1, 0, 0, 1, 1, 0, 0, 1>>
          /\ wave = SerialFrame(ADDRESS_BYTE)
          /\ SumMs(WakeSegments, wk) = 2000

C16_Witness ==
    /\ pc = "init_uart"
    /\ Len(wave) = 10
    /\ PD1 = 1
    /\ waited = BIT_MS

\* C17: the line has been high for at least 2600 ms when the wake byte
\* starts; the UART is configured only after the whole wake byte, and before
\* the first receive; at least 40 ms lie between the receive of key byte 2
\* and the transmit of its complement, and at least 40 ms between that
\* transmit and the read of the vehicle's acknowledgment.
C17_HandshakeOrder ==
    /\ (pc = "init_wake" /\ wk = 0) => (PD1 = 1 /\ waited >= MIN_RESET_MS)
    /\ uart => (wk = Len(WakeSegments) /\ Len(wave) = 10)
    /\ nrecv > 0 => uart
    /\ pc = "init_ack1" => (nrecv = 3 /\ tx = <<>>)
    /\ pc = "init_ack2" => (nrecv = 3 /\ Len(tx) = 1 /\ quiet >= MIN_ACK_WAIT_MS)
    /\ pc = "init_ack2_again" => (nrecv = 4 /\ quiet >= MIN_ACK_WAIT_MS)

C17_Witness ==
    /\ pc = "init_ack2_again"
    /\ uart
    /\ quiet = ACK_WAIT_MS
    /\ tx = <<Compl(keyByte2)>>

\* C18: at least 65 ms of waiting lie between the end of a request/response
\* cycle, or of the handshake, and the first byte of the next request: for
\* the supported-PID read, for each of the four reads of get_obd_data and
\* across iterations of the main loop, whatever the previous cycle returned.
C18_RequestGap ==
    FirstByteSent => quiet >= MIN_REQUEST_GAP_MS

C18_Witness ==
    /\ FirstByteSent
    /\ fn = "load"
    /\ nreq = 6
    /\ quiet = INTER_REQUEST_WAIT_MS

\* C19: within one request, byte k+1 is transmitted only after the echo of
\* byte k was received and at least 10 ms were waited since; no two bytes of
\* a request are transmitted back to back.
C19_InterByteGap ==
    /\ (pc = "sc_echo" /\ Len(tx) > 1) =>
          (Len(echo) = Len(tx) - 1 /\ quiet >= MIN_BYTE_GAP_MS)
    /\ fn # "none" => Len(echo) \in {Len(tx) - 1, Len(tx)}

C19_Witness ==
    /\ pc = "sc_echo"
    /\ Len(tx) = FrameLen(fn)
    /\ Len(echo) = Len(tx) - 1
    /\ quiet = INTER_BYTE_WAIT_MS

---------------------------------------------------------------------------
(* The documented response *)

\* the response bytes read so far are those of the README's format:
\* [42 + datalen] [destination] [source] [40 + cmd(0)] [cmd(1)] ...
DocumentedSoFar ==
    /\ fn # "none"
    /\ Len(rx) >= 4
    /\ \A k \in 1..Len(rx) :
          /\ k = 1 => rx[k] = DATA_LEN_OFFSET + CmdLen(fn) + ResultLen(fn)
          /\ k = 2 => rx[k] = DESTINATION
          /\ k = 3 => rx[k] = SOURCE
          /\ k = 4 => rx[k] = RESPONSE_MODE_OFFSET + Cmd(fn)[1]
          /\ (k > 4 /\ k <= 3 + CmdLen(fn)) => rx[k] = Cmd(fn)[k - 3]

\* C20: a response in the README's format, its data starting with
\* 0x40 + cmd(0), is accepted by send_cmd: the check of the command bytes
\* passes.
C20_DocumentedResponseAccepted ==
    DocumentedSoFar => ret # -1

---------------------------------------------------------------------------
(* Errors and what the caller and the display see of them *)

\* the value send_cmd returns when send_byte reports a failed echo
ECHO_ERROR == -1

\* the validation at which the current send_cmd stopped
FailedValidation ==
    IF rx = <<>> THEN "echo"
    ELSE IF Len(rx) = 1 THEN "length"
    ELSE IF Len(rx) <= 3 THEN "header"
    ELSE "command"

\* C21: the error send_cmd returns tells which validation failed: a failed
\* length, destination/source or command check does not return the value
\* that a failed echo returns.
C21_ErrorTellsValidation ==
    (ret \notin {NoRet, 0} /\ FailedValidation # "echo") => ret # ECHO_ERROR

\* the order in which send_cmd calls follow one another
FollowingReads(f) ==
    CASE f = "none" -> {"pids", "load"}
      [] f = "pids" -> {"load"}
      [] f = "load" -> {"temp"}
      [] f = "temp" -> {"rpm"}
      [] f = "rpm" -> {"speed"}
      [] f = "speed" -> {}

\* C24: nothing is retried: within one send_cmd the bytes of the request
\* are transmitted one after the other, each position once; and a reader
\* calls send_cmd once, so that the next send_cmd is that of the next read
\* in the order, whatever the previous one returned.
C24_NoRetry ==
    /\ [](fn # "none" => Len(tx) <= FrameLen(fn))
    /\ [][tx' # tx => (tx' = <<>> \/ (Len(tx') = Len(tx) + 1
                                        /\ SubSeq(tx', 1, Len(tx)) = tx))]_vars
    /\ [][nreq' # nreq => (nreq' = nreq + 1 /\ fn' \in FollowingReads(fn)
                              /\ pc \notin {"sc_tx", "sc_echo", "sc_len",
                                             "sc_dst", "sc_src", "sc_cmd",
                                             "sc_res", "sc_cks"})]_vars

C24_Witness ==
    /\ fn = "speed"
    /\ pc = "sc_echo"
    /\ tx = <<FrameByte("speed", 1, 0)>>
    /\ nreq = 5
    /\ obd_info.rpm = 0

\* C25: the polling loop goes on issuing requests under every schedule of
\* the timer interrupt, also one in which the flag is never raised: from
\* the wait for the flag the loop always reaches the next get_obd_data.
C25_PollingWithoutTimer ==
    (pc = "main_spin") ~> (pc = "poll")

\* the field of obd_info that reader f stores
Field(f, info) ==
    CASE f = "load" -> info.load
      [] f = "temp" -> info.temperature
      [] f = "rpm" -> info.rpm
      [] f = "speed" -> info.speed

\* v is a value that reader f can store after decoding some raw bytes
Decodable(f, v) ==
    CASE f = "load" -> \E A \in Byte : v = DecodeLoad(A)
      [] f = "temp" -> \E A \in Byte : v = DecodeTemp(A)
      [] f = "rpm" -> \E A \in Byte, B \in Byte : v \in DecodeRpm(A, B)
      [] f = "speed" -> \E A \in Byte : v = DecodeSpeed(A)

\* C22: what the display reads of a parameter whose read failed in this
\* cycle differs from everything a valid decode can leave there (the value
\* returned by the reader is dropped by get_obd_data, so the display reads
\* obd_info alone).
C22_FailureVisible ==
    (pc = "rd_done" /\ fn \in {"load", "temp", "rpm", "speed"} /\ rret = -1)
        => ~Decodable(fn, Field(fn, obd_info))

\* C23: obd_info.s1pid00 is read by one request, the first after the
\* handshake, and no step outside that request changes any of its 4 bytes.
C23_PidsReadOnce ==
    /\ [](fn = "pids" => nreq = 1)
    /\ [](pc \in {"poll", "main_key", "main_spin", "main_clear", "main_lcd"}
            => nreq >= 1)
    /\ [][fn # "pids" => obd_info'.s1pid00 = obd_info.s1pid00]_vars

C23_Witness ==
    /\ fn = "temp"
    /\ pc = "sc_cks"
    /\ obd_info.s1pid00 # InitInfo.s1pid00

---------------------------------------------------------------------------
(* The interrupt, the keypad and the display *)

\* everything but timer_flag
allButFlag == <<pc, PD1, wk, uart, hsVars, reqVars, obd_info, mode, page, ie,
                expired, nreq, wave, waited, quiet, lcd, keyPressed>>

\* C26: one flow of control owns the line: a step of the timer interrupt
\* (the only step that raises timer_flag) changes nothing but timer_flag,
\* so it neither transmits nor receives nor writes obd_info; and every step
\* that transmits, receives or writes obd_info is a step of the main flow,
\* which leaves timer_flag alone.
C26_InterruptTouchesFlagOnly ==
    /\ [][(timer_flag = 0 /\ timer_flag' = 1) => UNCHANGED allButFlag]_vars
    /\ [][<<tx, echo, rx, obd_info>>' # <<tx, echo, rx, obd_info>>
            => timer_flag' = timer_flag]_vars

C26_Witness ==
    /\ timer_flag = 1
    /\ fn = "rpm"
    /\ pc = "sc_res"
    /\ Len(rx) = 6

\* C27: key index 1 toggles page, key index 16 toggles mode, every other
\* value returned by get_key leaves both as they are; mode and page are 0
\* or 1; and update_lcd draws the supported-PID bytes exactly when mode is
\* 1, RPM and speed when mode is 0 and page 0, load and temperature when
\* mode is 0 and page 1.
C27_KeysAndScreens ==
    /\ [](mode \in {0, 1} /\ page \in {0, 1})
    /\ [][(pc = "main_key" /\ pc' # pc) =>
            /\ keyPressed' = 1 => (page' = 1 - page /\ mode' = mode)
            /\ keyPressed' = 16 => (mode' = 1 - mode /\ page' = page)
            /\ keyPressed' \notin {1, 16} => (mode' = mode /\ page' = page)]_vars
    /\ [][pc # "main_key" => (mode' = mode /\ page' = page)]_vars
    /\ [][(pc = "main_lcd" /\ pc' # pc) =>
            /\ lcd'.kind = "pids" <=> mode = 1
            /\ lcd'.kind = "rpm_speed" <=> (mode = 0 /\ page = 0)
            /\ lcd'.kind = "load_temp" <=> (mode = 0 /\ page = 1)
            /\ mode = 1 => lcd'.line0 = obd_info.s1pid00
            /\ (mode = 0 /\ page = 0) => lcd'.line1 = <<obd_info.speed>>
            /\ (mode = 0 /\ page = 1) =>
                  (lcd'.line0 = <<obd_info.load>>
                     /\ lcd'.line1 = <<obd_info.temperature>>)]_vars

C27_Witness ==
    /\ pc = "poll"
    /\ keyPressed = KEY_MODE
    /\ mode = 1
    /\ page = 1
    /\ lcd.kind = "pids"
    /\ lcd.line0 = obd_info.s1pid00

---------------------------------------------------------------------------
(* What send_cmd accepts, and how many bytes it and obd_init consume *)

C29_ChecksumDiscarded ==
    /\ [][(pc = "sc_cks" /\ pc' # pc) =>
            /\ ret' = 0
            /\ result' = result
            /\ obd_info' = obd_info
            /\ Len(rx') = Len(rx) + 1
            /\ pc' = "rd_decode"]_vars
    /\ [](ret = 0 => Len(rx) = CmdLen(fn) + ResultLen(fn) + 4)

C29_Witness ==
    /\ pc = "rd_decode"
    /\ fn = "load"
    /\ ret = 0
    /\ Len(rx) = 7
    /\ rx[7] # SumBytes(SubSeq(rx, 1, 6))

\* C30: obd_init has received exactly four bytes when it returns: the sync
\* byte, the two key bytes and one byte taken as the vehicle's
\* acknowledgment.
C30_FourBytesReceived ==
    pc = "init_return" => nrecv = 4

\* the part of obd_info that send_cmd can be handed as its result buffer, and
\* the readers' local buffer
ResultBuffers == <<result, obd_info.s1pid00>>

\* C31: send_cmd writes result_buf only after the length, destination, source
\* and command checks have all passed: whenever send_cmd has returned an
\* error, result_buf (obd_info.s1pid00 in the supported-PID read) is as it was
\* before the call, and a step inside send_cmd changes a result buffer only in
\* the result loop, with the 3 header bytes and the command bytes received.
C31_WriteAfterChecks ==
    /\ []((fn \in Readers /\ ret = -1) => ResultUntouched)
    /\ [][(fn \in Readers /\ fn' = fn /\ ResultBuffers' # ResultBuffers)
             => (pc = "sc_res" /\ ret = NoRet /\ Len(rx) >= 3 + CmdLen(fn))]_vars

\* send_cmd returned an error on the first command byte of the supported-PID
\* read, and on the length byte of a reader
C31_Witness ==
    /\ pc = "rd_decode" /\ ret = -1 /\ Len(tx) = FrameLen(fn)
    /\ \/ fn = "pids" /\ Len(rx) = 4 /\ obd_info.s1pid00 = InitInfo.s1pid00
       \/ fn = "rpm" /\ Len(rx) = 5 /\ result = <<Uninit, Uninit>>

\* C32: every get_obd_data attempts the four reads in the order load,
\* temperature, rpm, speed: it starts with the load, a reader that has
\* returned, with 0 or with -1, is followed by the next one and by nothing
\* else, the cycle ends after the speed only, and get_obd_data then returns 0.
C32_FourReadsThenZero ==
    /\ [](gret \in {NoRet, 0})
    /\ []((pc = "rd_done" /\ fn \in {"load", "temp", "rpm"} /\ nreq < MaxRequests)
            => ENABLED get_obd_data)
    /\ [][(pc = "poll" /\ pc' # pc) => (pc' = "sc_tx" /\ fn' = "load")]_vars
    /\ [][(pc = "rd_done" /\ pc' # pc) =>
             /\ rret \in {0, -1}
             /\ \/ fn = "load" /\ fn' = "temp" /\ pc' = "sc_tx"
                \/ fn = "temp" /\ fn' = "rpm" /\ pc' = "sc_tx"
                \/ fn = "rpm" /\ fn' = "speed" /\ pc' = "sc_tx"
                \/ fn = "speed" /\ pc' = "main_key" /\ gret' = 0]_vars

\* get_obd_data returned 0 after a cycle whose first read failed (the load is
\* still the initial 0) and whose last read stored a speed
C32_Witness ==
    /\ pc = "main_key"
    /\ gret = 0
    /\ nreq = 5
    /\ obd_info.load = 0
    /\ obd_info.speed # 0

\* C33: whenever send_cmd has returned after sending the whole request and
\* starting on the response, it has received the whole response frame,
\* cmd_len + result_len + 4 bytes, so that none of it is left on the line for
\* the next request's first echo read.
C33_ResponseConsumed ==
    (fn \in Readers /\ ret # NoRet /\ Len(tx) = FrameLen(fn) /\ Len(rx) >= 1)
        => Len(rx) = CmdLen(fn) + ResultLen(fn) + 4

\* C34: the polling cycle of get_obd_data refines the inline loop it
\* replaced: on a line that echoes every byte, each of the four reads has
\* transmitted the bytes the inline loop transmits for that request, has read
\* the response frame of 7, 7, 8 and 7 bytes, and has stored the value the
\* inline loop computes from that frame.
C34_RefinesLegacyLoop ==
    (pc = "rd_done" /\ fn \in {"load", "temp", "rpm", "speed"} /\ AllEchoed) =>
        /\ tx = LegacyRequest(fn)
        /\ Len(rx) = LegacyResponseLen(fn)
        /\ Field(fn, obd_info) \in LegacyDecode(fn, rx)

\* the update_lcd calls made or owed: the flag was cleared for one that is
\* still to be made
RefreshesOwed == nlcd + (IF pc = "main_lcd" THEN 1 ELSE 0)

\* C35: the display refresh is gated by the timer flag under every
\* interleaving of the interrupt with the loop: timer_flag is set only by a
\* step of the timer interrupt, it is cleared only by the loop's own
\* assignment, which the loop reaches only from its wait having seen the flag
\* set, update_lcd is called only after that clear, and each call has an
\* interrupt of its own before it: the calls made or owed, plus one for a
\* flag that is set, never exceed the interrupts taken, so the number of
\* update_lcd calls never exceeds the number of timer interrupts.
C35_RefreshGatedByTimer ==
    /\ [](RefreshesOwed + timer_flag <= nirq /\ nlcd <= nirq)
    /\ [](pc = "main_clear" => timer_flag = 1)
    /\ [][timer_flag' # timer_flag =>
             IF timer_flag' = 1
             THEN nirq' = nirq + 1 /\ pc' = pc /\ nlcd' = nlcd
             ELSE pc = "main_clear" /\ pc' = "main_lcd" /\ nirq' = nirq]_vars
    /\ [][(pc' = "main_clear" /\ pc # pc') => (pc = "main_spin" /\ timer_flag # 0)]_vars
    /\ [][nlcd' # nlcd => (nlcd' = nlcd + 1 /\ pc = "main_lcd" /\ pc' = "poll"
                              /\ nirq' = nirq)]_vars

\* update_lcd has been called twice with three interrupts taken, the last of
\* them between the clearing of the flag and the call: the flag is set again
\* when the call returns
C35_Witness ==
    /\ pc = "poll"
    /\ nlcd = 2
    /\ nirq = 3
    /\ timer_flag = 1

====
